---- MODULE Spec2Model ----
(***************************************************************************)
(* A model of geth-log-cruncher (src/src/main.rs): the run() driver, the   *)
(* line loop of process_log_file() and the line parser parse_line() with   *)
(* its two regular expressions and its timestamp reconstruction.           *)
(*                                                                         *)
(* Text is a sequence of one-character strings.  The character "#" stands  *)
(* for a byte that is not valid UTF-8 (read_line fails on it).             *)
(***************************************************************************)
EXTENDS Integers, Sequences, FiniteSets, TLC

VARIABLES
    pathKind,            \* what args.log_file_path names: "missing", "dir", "file"
    file,                \* the bytes of the input file
    yearArg,             \* args.year: a year or NoYear
    nowYear,             \* Local::now().year()
    tz,                  \* the zone behind chrono::Local
    pc,                  \* position of run(): "start", "loop", "summary", "done"
    year,                \* run(): let year
    offset,              \* number of bytes the BufReader has consumed
    total_lines,         \* process_log_file: total_lines
    valid_line_count,    \* process_log_file: valid_line_count
    bytes_read_so_far,   \* process_log_file: bytes_read_so_far
    pbPosition,          \* the progress bar's position
    pbMessage,           \* the progress bar's message
    stdout,              \* the JSON lines printed with println!
    stderr,              \* the diagnostics printed with eprintln! / the progress bar
    result,              \* what run() returned: "none", "Ok", "Err"
    divisions,           \* the divisors used by the invalid-percentage division
    arg,                 \* input of the function applied in the function specifications
    ret,                 \* its result
    op                   \* "idle" before the function is applied, its name afterwards

vars == <<pathKind, file, yearArg, nowYear, tz, pc, year, offset, total_lines,
          valid_line_count, bytes_read_so_far, pbPosition, pbMessage, stdout,
          stderr, result, divisions, arg, ret, op>>

runVars == <<pathKind, file, yearArg, nowYear, tz, pc, year, offset, total_lines,
             valid_line_count, bytes_read_so_far, pbPosition, pbMessage, stdout,
             stderr, result, divisions>>

fnVars == <<arg, ret, op>>

----------------------------------------------------------------------------
(* Bounds of the model *)

MaxLines == 3          \* lines in an input file
MaxTailLen == 4        \* characters after the first token of a classified line
MaxMsgLen == 5         \* characters of an exhaustively enumerated message
MaxTokens == 3         \* tokens of a message made of tokens

----------------------------------------------------------------------------
(* Characters *)

Quote == "\""
NL == "\n"
BadByte == "#"
Whitespace == {" ", "\t", "\n", "\r"}
Digits == {"0", "1", "2", "3", "4", "5", "6", "7", "8", "9"}
Letters == {"a", "b", "c", "d", "e", "f", "g", "h", "i", "j", "k", "l", "m",
            "n", "o", "p", "q", "r", "s", "t", "u", "v", "w", "x", "y", "z",
            "A", "B", "C", "D", "E", "F", "G", "I", "N", "O", "R", "T", "U", "W"}
WordChars == Letters \cup Digits \cup {"_"}

NoMatch == [matched |-> FALSE]
None == [some |-> FALSE]
\* Option<i32>: the empty sequence for None, <<y>> for Some(y)
NoYear == <<>>

Min(S) == CHOOSE x \in S : \A y \in S : x <= y

RECURSIVE Concat(_)
Concat(ss) == IF ss = <<>> THEN <<>> ELSE Head(ss) \o Concat(Tail(ss))

IsPrefix(p, s) == Len(p) <= Len(s) /\ SubSeq(s, 1, Len(p)) = p

\* the first index >= i of s whose character is not in the set cs, Len(s)+1 if none
SkipWhile(s, i, cs) ==
    LET stops == {j \in i..Len(s) : s[j] \notin cs}
    IN IF stops = {} THEN Len(s) + 1 ELSE Min(stops)

\* the first index >= i of s whose character is in the set cs, Len(s)+1 if none
SkipUntil(s, i, cs) ==
    LET stops == {j \in i..Len(s) : s[j] \in cs}
    IN IF stops = {} THEN Len(s) + 1 ELSE Min(stops)

----------------------------------------------------------------------------
\* LOG_REGEX: at the start of the line one of the five level keywords, then
\* \s*, then "[", then the lazy group .+? (timestamp), then "]", then \s+, then
\* the greedy group of any characters but a newline (message).

LevelKeywords == { <<"I","N","F","O">>, <<"W","A","R","N">>,
                   <<"E","R","R","O","R">>, <<"D","E","B","U","G">>,
                   <<"T","R","A","C","E">> }

\* the ends e (index of the closing bracket) the lazy group (.+?) can stop at:
\* at least one character, none of them a newline, then "]" and a whitespace
TimestampEnds(line, open) ==
    {e \in (open + 2)..Len(line) :
        /\ line[e] = "]"
        /\ \A j \in (open + 1)..(e - 1) : line[j] # NL
        /\ e + 1 <= Len(line)
        /\ line[e + 1] \in Whitespace}

LOG_REGEX(line) ==
    LET lv == {l \in LevelKeywords : IsPrefix(l, line)}
    IN IF lv = {} THEN NoMatch
       ELSE LET level == CHOOSE l \in lv : TRUE
                open == SkipWhile(line, Len(level) + 1, Whitespace)
            IN IF open > Len(line) \/ line[open] # "[" THEN NoMatch
               ELSE LET ends == TimestampEnds(line, open)
                    IN IF ends = {} THEN NoMatch
                       ELSE LET e == Min(ends)
                                m == SkipWhile(line, e + 1, Whitespace)
                                stop == SkipUntil(line, m, {NL})
                            IN [matched |-> TRUE,
                                level |-> level,
                                timestamp |-> SubSeq(line, open + 1, e - 1),
                                message |-> SubSeq(line, m, stop - 1)]

----------------------------------------------------------------------------
\* KV_REGEX: the group \w+ (key), then "=", then the group (value) that is a
\* quote, characters other than a quote and a quote, or else \S+.

\* MatchValueAt with the run of non-whitespace tried before the quoted text
MatchValueAt_RunFirst(msg, v) ==
    IF v > Len(msg) THEN 0
    ELSE IF msg[v] \notin Whitespace THEN SkipUntil(msg, v, Whitespace) - 1
    ELSE 0

\* the index of the last character of the value that starts at v, 0 if none:
\* the quoted alternative is tried first, the run of non-whitespace second
MatchValueAt(msg, v) ==
    IF v > Len(msg) THEN 0
    ELSE LET closing == {q \in (v + 1)..Len(msg) : msg[q] = Quote}
         IN IF msg[v] = Quote /\ closing # {} THEN Min(closing)
            ELSE IF msg[v] \notin Whitespace
                 THEN SkipUntil(msg, v, Whitespace) - 1
                 ELSE 0

\* the match of KV_REGEX that starts exactly at s
MatchKVAt(msg, s) ==
    IF msg[s] \notin WordChars THEN NoMatch
    ELSE LET eq == SkipWhile(msg, s, WordChars)
         IN IF eq > Len(msg) \/ msg[eq] # "=" THEN NoMatch
            ELSE LET ve == MatchValueAt(msg, eq + 1)
                 IN IF ve = 0 THEN NoMatch
                    ELSE [matched |-> TRUE,
                          key |-> SubSeq(msg, s, eq - 1),
                          value |-> SubSeq(msg, eq + 1, ve),
                          start |-> s,
                          end |-> ve]

\* the leftmost match of KV_REGEX that starts at or after from
FindKV(msg, from) ==
    LET starts == {s \in from..Len(msg) : MatchKVAt(msg, s).matched}
    IN IF starts = {} THEN NoMatch ELSE MatchKVAt(msg, Min(starts))

\* KV_REGEX.captures_iter(&message): the matches, left to right, not overlapping
RECURSIVE captures_iter(_, _)
captures_iter(msg, from) ==
    LET m == FindKV(msg, from)
    IN IF ~m.matched THEN <<>>
       ELSE <<m>> \o captures_iter(msg, m.end + 1)

starts_with(s, c) == Len(s) > 0 /\ s[1] = c
ends_with(s, c) == Len(s) > 0 /\ s[Len(s)] = c

\* str::trim_matches: every leading and every trailing c is removed
trim_matches(s, c) ==
    LET keep == {j \in 1..Len(s) : s[j] # c}
    IN IF keep = {} THEN <<>>
       ELSE SubSeq(s, Min(keep), CHOOSE x \in keep : \A y \in keep : y <= x)

\* Unquote that trims quotes from every value
Unquote_TrimsAlways(value) == trim_matches(value, Quote)

\* lines 158-161: the stored value of a matched value
Unquote(value) ==
    IF starts_with(value, Quote) /\ ends_with(value, Quote)
    THEN trim_matches(value, Quote)
    ELSE value

\* Insert that keeps the value a key already has
Insert_KeepsFirst(details, key, value) ==
    [k \in DOMAIN details \cup {key} |->
        IF k \in DOMAIN details THEN details[k] ELSE value]

\* HashMap::insert: a later value replaces an earlier one of the same key
Insert(details, key, value) ==
    [k \in DOMAIN details \cup {key} |-> IF k = key THEN value ELSE details[k]]

EmptyMap == [k \in {} |-> <<>>]

RECURSIVE InsertAll(_, _)
InsertAll(details, ms) ==
    IF ms = <<>> THEN details
    ELSE InsertAll(Insert(details, Head(ms).key, Unquote(Head(ms).value)), Tail(ms))

\* lines 155-163: the details of a message
ExtractDetails(message) == InsertAll(EmptyMap, captures_iter(message, 1))

----------------------------------------------------------------------------
\* Timestamp reconstruction (lines 150-152)

DigitChars == <<"0", "1", "2", "3", "4", "5", "6", "7", "8", "9">>
DigitVal(c) == (CHOOSE d \in 1..10 : DigitChars[d] = c) - 1

RECURSIVE Pow10(_)
Pow10(n) == IF n = 0 THEN 1 ELSE 10 * Pow10(n - 1)

RECURSIVE NatToStr(_)
NatToStr(n) ==
    IF n < 10 THEN <<DigitChars[n + 1]>>
    ELSE NatToStr(n \div 10) \o <<DigitChars[(n % 10) + 1]>>

\* Display of an i32: a minus sign for a negative number, no padding, no plus sign
IntToStr(n) == IF n < 0 THEN <<"-">> \o NatToStr(0 - n) ELSE NatToStr(n)

\* line 150: format!("{}-{}", year, raw_timestamp_str)
with_year(y, raw_timestamp_str) == IntToStr(y) \o <<"-">> \o raw_timestamp_str

Fail == [ok |-> FALSE, val |-> 0, next |-> 0]

RECURSIVE DigitsValue(_)
DigitsValue(ds) ==
    IF ds = <<>> THEN 0
    ELSE 10 * DigitsValue(SubSeq(ds, 1, Len(ds) - 1)) + DigitVal(ds[Len(ds)])

\* chrono scan::number: at least min and at most max digits from index i
ScanNumber(s, i, min, max) ==
    IF i < 1 THEN Fail
    ELSE LET stop == SkipWhile(s, i, Digits)
             n == IF stop - i > max THEN max ELSE stop - i
         IN IF n < min THEN Fail
            ELSE [ok |-> TRUE, val |-> DigitsValue(SubSeq(s, i, i + n - 1)), next |-> i + n]

\* chrono numeric item: leading whitespace is skipped, then up to width digits
ParseNumeric(s, i, width) ==
    IF i < 1 THEN Fail ELSE ScanNumber(s, SkipWhile(s, i, Whitespace), 1, width)

\* chrono %Y: with a sign any number of digits, without one at most four
ParseYear(s, i) ==
    LET j == SkipWhile(s, i, Whitespace)
    IN IF j > Len(s) THEN Fail
       ELSE IF s[j] = "-"
            THEN LET r == ScanNumber(s, j + 1, 1, Len(s))
                 IN IF r.ok THEN [r EXCEPT !.val = 0 - r.val] ELSE Fail
            ELSE IF s[j] = "+" THEN ScanNumber(s, j + 1, 1, Len(s))
            ELSE ScanNumber(s, j, 1, 4)

\* chrono literal item: the next character is c
ParseLiteral(s, i, c) == IF i >= 1 /\ i <= Len(s) /\ s[i] = c THEN i + 1 ELSE 0

\* chrono %.f: nothing, or a dot and at least one digit; digits after the ninth are dropped
ParseFraction(s, i) ==
    IF i < 1 THEN Fail
    ELSE IF i <= Len(s) /\ s[i] = "."
         THEN LET r == ScanNumber(s, i + 1, 1, 9)
              IN IF ~r.ok THEN Fail
                 ELSE [ok |-> TRUE,
                       val |-> r.val * Pow10(9 - (r.next - (i + 1))),
                       next |-> SkipWhile(s, r.next, Digits)]
         ELSE [ok |-> TRUE, val |-> 0, next |-> i]

IsLeapYear(y) == (y % 4 = 0 /\ y % 100 # 0) \/ y % 400 = 0

DaysInMonth(y, m) ==
    IF m = 2 THEN (IF IsLeapYear(y) THEN 29 ELSE 28)
    ELSE IF m \in {4, 6, 9, 11} THEN 30 ELSE 31

\* chrono's range of years and of calendar fields; second 60 is a leap second
ValidFields(y, mo, d, h, mi, sec) ==
    /\ y >= -262144 /\ y <= 262143
    /\ mo >= 1 /\ mo <= 12
    /\ d >= 1 /\ d <= DaysInMonth(y, mo)
    /\ h <= 23 /\ mi <= 59 /\ sec <= 60

\* line 151: NaiveDateTime::parse_from_str(s, "%Y-%m-%d|%H:%M:%S%.f").ok()
parse_from_str(s) ==
    LET y == ParseYear(s, 1)
        mo == ParseNumeric(s, ParseLiteral(s, y.next, "-"), 2)
        d == ParseNumeric(s, ParseLiteral(s, mo.next, "-"), 2)
        h == ParseNumeric(s, ParseLiteral(s, d.next, "|"), 2)
        mi == ParseNumeric(s, ParseLiteral(s, h.next, ":"), 2)
        sec == ParseNumeric(s, ParseLiteral(s, mi.next, ":"), 2)
        f == ParseFraction(s, sec.next)
    IN IF /\ y.ok /\ mo.ok /\ d.ok /\ h.ok /\ mi.ok /\ sec.ok /\ f.ok
          /\ f.next = Len(s) + 1
          /\ ValidFields(y.val, mo.val, d.val, h.val, mi.val, sec.val)
       THEN [some |-> TRUE, year |-> y.val, month |-> mo.val, day |-> d.val,
             hour |-> h.val, minute |-> mi.val,
             second |-> IF sec.val = 60 THEN 59 ELSE sec.val,
             nanosecond |-> IF sec.val = 60 THEN f.val + Pow10(9) ELSE f.val]
       ELSE None

\* The zones of the model: "UTC" has no transitions; "DST" skips 02:00-02:59 on
\* 10 March (clock forward) and repeats 01:00-01:59 on 3 November (clock back).
Zones == {"UTC", "DST"}

InGap(zone, t) == zone = "DST" /\ t.month = 3 /\ t.day = 10 /\ t.hour = 2
InOverlap(zone, t) == zone = "DST" /\ t.month = 11 /\ t.day = 3 /\ t.hour = 1

IsDaylight(zone, t) ==
    /\ zone = "DST"
    /\ \/ (t.month > 3 /\ t.month < 11)
       \/ (t.month = 3 /\ (t.day > 10 \/ (t.day = 10 /\ t.hour >= 3)))
       \/ (t.month = 11 /\ (t.day < 3 \/ (t.day = 3 /\ t.hour < 1)))

\* and_local_timezone that settles a repeated local time on its first offset
and_local_timezone_PicksFirst(zone, t) ==
    IF InGap(zone, t) THEN [kind |-> "None"]
    ELSE [kind |-> "Single",
          dt |-> [year |-> t.year, month |-> t.month, day |-> t.day,
                  hour |-> t.hour, minute |-> t.minute, second |-> t.second,
                  nanosecond |-> t.nanosecond,
                  utc_offset |-> IF zone = "UTC" THEN 0
                                 ELSE IF IsDaylight(zone, t) \/ InOverlap(zone, t)
                                      THEN -240 ELSE -300]]

\* line 152: naive_dt.and_local_timezone(Local): no, one or two local offsets
and_local_timezone(zone, t) ==
    IF InGap(zone, t) THEN [kind |-> "None"]
    ELSE IF InOverlap(zone, t) THEN [kind |-> "Ambiguous"]
    ELSE [kind |-> "Single",
          dt |-> [year |-> t.year, month |-> t.month, day |-> t.day,
                  hour |-> t.hour, minute |-> t.minute, second |-> t.second,
                  nanosecond |-> t.nanosecond,
                  utc_offset |-> IF zone = "UTC" THEN 0
                                 ELSE IF IsDaylight(zone, t) THEN -240 ELSE -300]]

\* lines 147-174: parse_line
parse_line(line, y, zone) ==
    LET caps == LOG_REGEX(line)
    IN IF ~caps.matched THEN None
       ELSE LET naive_dt == parse_from_str(with_year(y, caps.timestamp))
            IN IF ~naive_dt.some THEN None
               ELSE LET local_dt == and_local_timezone(zone, naive_dt)
                    IN IF local_dt.kind # "Single" THEN None
                       ELSE [some |-> TRUE,
                             level |-> caps.level,
                             timestamp |-> local_dt.dt,
                             message |-> caps.message,
                             details |-> ExtractDetails(caps.message)]

----------------------------------------------------------------------------
\* Input lines of the run specification (without their terminator)

\* the end-to-end example of the specification
LineAlice ==
    <<"I", "N", "F", "O", " ", "[", "0", "3", "-", "1", "5", "|", "1", "4", ":", "2", "2", ":", "0", "5", ".", "1", "2", "3", "]", " ", "u", "s", "e", "r", "=", "a", "l", "i", "c", "e", " ", "a", "c", "t", "i", "o", "n", "=", Quote, "l", "o", "g", " ", "i", "n", Quote, " ", "s", "t", "a", "t", "u", "s", "=", "o", "k">>

\* not a log line
LineGarbage ==
    <<"g", "a", "r", "b", "a", "g", "e", " ", "t", "e", "x", "t", " ", "n", "o", " ", "s", "t", "r", "u", "c", "t", "u", "r", "e">>

\* a date that is in no calendar
LineFeb30 ==
    <<"W", "A", "R", "N", " ", "[", "0", "2", "-", "3", "0", "|", "1", "0", ":", "0", "0", ":", "0", "0", "]", " ", "x", "=", "1">>

\* a local time the DST zone skips
LineGap ==
    <<"E", "R", "R", "O", "R", " ", "[", "0", "3", "-", "1", "0", "|", "0", "2", ":", "3", "0", ":", "0", "0", "]", " ", "k", "=", "v">>

\* a local time the DST zone repeats
LineOverlap ==
    <<"D", "E", "B", "U", "G", " ", "[", "1", "1", "-", "0", "3", "|", "0", "1", ":", "3", "0", ":", "0", "0", "]", " ", "a", "=", "1", " ", "a", "=", "2">>

\* a date of leap years only
LineLeapDay ==
    <<"T", "R", "A", "C", "E", "[", "0", "2", "-", "2", "9", "|", "2", "3", ":", "5", "9", ":", "5", "9", "]", " ", "l", "e", "a", "p">>

\* a line with a byte that is not UTF-8
LineBad ==
    <<"I", "N", "F", "O", " ", "[", "0", "3", "-", "1", "5", "|", "1", "4", ":", "2", "2", ":", "0", "5", "]", " ", "#">>

\* an empty line
LineEmpty ==
    <<>>

Corpus == {LineAlice, LineGarbage, LineFeb30, LineGap, LineOverlap, LineLeapDay, LineBad, LineEmpty}

----------------------------------------------------------------------------
\* The run: run() and process_log_file()

SeqsUpTo(S, n) == UNION {[1..k -> S] : k \in 0..n}

\* a file of the lines ls; the last line has its terminator iff terminated
FileOf(ls, terminated) ==
    Concat([i \in 1..Len(ls) |->
               ls[i] \o (IF i < Len(ls) \/ terminated THEN <<NL>> ELSE <<>>)])

Files == {FileOf(ls, t) : ls \in SeqsUpTo(Corpus, MaxLines), t \in BOOLEAN}

YearArgs == {NoYear, <<2023>>, <<10000>>}
NowYears == {2028}
PathKinds == {"missing", "dir", "denied", "file"}

Say(text, data) == [text |-> text, data |-> data]

FnIdle == arg = <<>> /\ ret = None /\ op = "idle"

Init ==
    /\ pathKind \in PathKinds
    /\ file \in (IF pathKind = "file" THEN Files ELSE {<<>>})
    /\ yearArg \in YearArgs
    /\ nowYear \in NowYears
    /\ tz \in Zones
    /\ pc = "start"
    /\ year = 0
    /\ offset = 0
    /\ total_lines = 0
    /\ valid_line_count = 0
    /\ bytes_read_so_far = 0
    /\ pbPosition = 0
    /\ pbMessage = ""
    /\ stdout = <<>>
    /\ stderr = <<>>
    /\ result = "none"
    /\ divisions = <<>>
    /\ FnIdle

\* main(), lines 54-57: an error of run() is printed and the process exits with 1
Abort(text) ==
    /\ stderr' = stderr \o <<Say(text, <<>>), Say("Application error", <<>>)>>
    /\ result' = "Err"
    /\ pc' = "done"

\* lines 68-69 and 177-187: validate_path
ValidatePath ==
    /\ pc = "start"
    /\ IF pathKind = "missing" THEN Abort("File not found")
       ELSE IF pathKind = "dir" THEN Abort("The path is a directory, not a file")
       ELSE pc' = "validated" /\ UNCHANGED <<stderr, result>>
    /\ UNCHANGED <<pathKind, file, yearArg, nowYear, tz, year, offset, total_lines,
                   valid_line_count, bytes_read_so_far, pbPosition, pbMessage,
                   stdout, divisions, fnVars>>

\* Setup without the exit on an empty file
Setup_NoEmptyCheck ==
    /\ pc = "validated"
    /\ year' = IF yearArg = NoYear THEN nowYear ELSE yearArg[1]
    /\ IF pathKind = "denied"
       THEN /\ Abort("File cannot be opened")
            /\ UNCHANGED pbMessage
       ELSE /\ pbMessage' = "Initializing..."
            /\ pc' = "loop"
            /\ UNCHANGED <<stderr, result>>
    /\ total_lines' = 0
    /\ valid_line_count' = 0
    /\ bytes_read_so_far' = 0
    /\ UNCHANGED <<pathKind, file, yearArg, nowYear, tz, offset, pbPosition,
                   stdout, divisions, fnVars>>

\* lines 71-85 and 110-118: the year, the size of the file, the empty-file exit,
\* and the counters of process_log_file
Setup ==
    /\ pc = "validated"
    /\ year' = IF yearArg = NoYear THEN nowYear ELSE yearArg[1]
    /\ IF pathKind = "denied"
       THEN /\ Abort("File cannot be opened")
            /\ UNCHANGED pbMessage
       ELSE IF Len(file) = 0
       THEN /\ pbMessage' = "File is empty."
            /\ stderr' = Append(stderr, Say("Input file is empty. Nothing to process.", <<>>))
            /\ result' = "Ok"
            /\ pc' = "done"
       ELSE /\ pbMessage' = "Initializing..."
            /\ pc' = "loop"
            /\ UNCHANGED <<stderr, result>>
    /\ total_lines' = 0
    /\ valid_line_count' = 0
    /\ bytes_read_so_far' = 0
    /\ UNCHANGED <<pathKind, file, yearArg, nowYear, tz, offset, pbPosition,
                   stdout, divisions, fnVars>>

\* reader.read_line: the bytes from the reader's position up to and including
\* the next newline, or up to the end of the file
NextLine(f, off) ==
    LET nl == SkipUntil(f, off + 1, {NL})
    IN SubSeq(f, off + 1, IF nl > Len(f) THEN Len(f) ELSE nl)

IsUtf8(line) == \A j \in 1..Len(line) : line[j] # BadByte

\* serde_json::to_string(&log_entry): the object with the fields of LogEntry
to_string(entry) ==
    [level |-> entry.level, timestamp |-> entry.timestamp,
     message |-> entry.message, details |-> entry.details]

\* lines 121-124: read_line returns 0 bytes, the loop ends (line 142)
ReadEof ==
    /\ pc = "loop"
    /\ offset = Len(file)
    /\ pbMessage' = "Processing complete!"
    /\ pc' = "summary"
    /\ UNCHANGED <<pathKind, file, yearArg, nowYear, tz, year, offset, total_lines,
                   valid_line_count, bytes_read_so_far, pbPosition, stdout,
                   stderr, result, divisions, fnVars>>

\* line 121: read_line fails on a line that is not UTF-8, and run() fails with it
ReadError ==
    /\ pc = "loop"
    /\ offset < Len(file)
    /\ ~IsUtf8(NextLine(file, offset))
    /\ Abort("stream did not contain valid UTF-8")
    /\ UNCHANGED <<pathKind, file, yearArg, nowYear, tz, year, offset, total_lines,
                   valid_line_count, bytes_read_so_far, pbPosition, pbMessage,
                   stdout, divisions, fnVars>>

\* ProcessLine with a line that does not parse ending the run with an error
ProcessLine_AbortOnInvalid ==
    /\ pc = "loop"
    /\ offset < Len(file)
    /\ LET line_buffer == NextLine(file, offset)
           log_entry == parse_line(line_buffer, year, tz)
       IN /\ IsUtf8(line_buffer)
          /\ offset' = offset + Len(line_buffer)
          /\ total_lines' = total_lines + 1
          /\ bytes_read_so_far' = bytes_read_so_far + Len(line_buffer)
          /\ pbPosition' = bytes_read_so_far + Len(line_buffer)
          /\ pbMessage' = "Processing line"
          /\ IF log_entry.some
             THEN /\ valid_line_count' = valid_line_count + 1
                  /\ stdout' = Append(stdout, to_string(log_entry))
                  /\ UNCHANGED <<pc, stderr, result>>
             ELSE /\ Abort("invalid line")
                  /\ UNCHANGED <<valid_line_count, stdout>>
    /\ UNCHANGED <<pathKind, file, yearArg, nowYear, tz, year, divisions, fnVars>>

\* ProcessLine with the valid count incremented for every line
ProcessLine_CountsEveryLine ==
    /\ pc = "loop"
    /\ offset < Len(file)
    /\ LET line_buffer == NextLine(file, offset)
           log_entry == parse_line(line_buffer, year, tz)
       IN /\ IsUtf8(line_buffer)
          /\ offset' = offset + Len(line_buffer)
          /\ total_lines' = total_lines + 1
          /\ bytes_read_so_far' = bytes_read_so_far + Len(line_buffer)
          /\ pbPosition' = bytes_read_so_far + Len(line_buffer)
          /\ pbMessage' = "Processing line"
          /\ valid_line_count' = valid_line_count + 1
          /\ IF log_entry.some
             THEN stdout' = Append(stdout, to_string(log_entry))
             ELSE UNCHANGED stdout
    /\ UNCHANGED <<pathKind, file, yearArg, nowYear, tz, year, pc, stderr, result,
                   divisions, fnVars>>

\* ProcessLine with the record put before the records already printed
ProcessLine_Prepends ==
    /\ pc = "loop"
    /\ offset < Len(file)
    /\ LET line_buffer == NextLine(file, offset)
           log_entry == parse_line(line_buffer, year, tz)
       IN /\ IsUtf8(line_buffer)
          /\ offset' = offset + Len(line_buffer)
          /\ total_lines' = total_lines + 1
          /\ bytes_read_so_far' = bytes_read_so_far + Len(line_buffer)
          /\ pbPosition' = bytes_read_so_far + Len(line_buffer)
          /\ pbMessage' = "Processing line"
          /\ IF log_entry.some
             THEN /\ valid_line_count' = valid_line_count + 1
                  /\ stdout' = <<to_string(log_entry)>> \o stdout
             ELSE UNCHANGED <<valid_line_count, stdout>>
    /\ UNCHANGED <<pathKind, file, yearArg, nowYear, tz, year, pc, stderr, result,
                   divisions, fnVars>>

\* lines 120-139: one iteration of the loop on a line that was read
ProcessLine ==
    /\ pc = "loop"
    /\ offset < Len(file)
    /\ LET line_buffer == NextLine(file, offset)
           log_entry == parse_line(line_buffer, year, tz)
       IN /\ IsUtf8(line_buffer)
          /\ offset' = offset + Len(line_buffer)
          /\ total_lines' = total_lines + 1
          /\ bytes_read_so_far' = bytes_read_so_far + Len(line_buffer)
          /\ pbPosition' = bytes_read_so_far + Len(line_buffer)
          /\ pbMessage' = "Processing line"
          /\ IF log_entry.some
             THEN /\ valid_line_count' = valid_line_count + 1
                  /\ stdout' = Append(stdout, to_string(log_entry))
             ELSE UNCHANGED <<valid_line_count, stdout>>
    /\ UNCHANGED <<pathKind, file, yearArg, nowYear, tz, year, pc, stderr, result,
                   divisions, fnVars>>

\* line 91 and the {:.2} of line 99: the percentage in hundredths, -1 for the
\* NaN of a division of zero by zero
Percentage(invalid_line_count, total) ==
    IF total = 0 THEN -1
    ELSE (invalid_line_count * 10000 * 2 + total) \div (2 * total)

\* lines 88-105: the counts, the division and the summary
Summary ==
    /\ pc = "summary"
    /\ LET invalid_line_count == total_lines - valid_line_count
           invalid_percentage == Percentage(invalid_line_count, total_lines)
       IN /\ divisions' = Append(divisions, total_lines)
          /\ stderr' = Append(stderr,
                 Say("Run Summary", <<total_lines, valid_line_count,
                                      invalid_line_count, invalid_percentage, year>>))
    /\ result' = "Ok"
    /\ pc' = "done"
    /\ UNCHANGED <<pathKind, file, yearArg, nowYear, tz, year, offset, total_lines,
                   valid_line_count, bytes_read_so_far, pbPosition, pbMessage,
                   stdout, fnVars>>

Next ==
    \/ ValidatePath
    \/ Setup
    \/ ReadEof
    \/ ReadError
    \/ ProcessLine
    \/ Summary

Spec == Init /\ [][Next]_vars

TypeOK ==
    /\ pc \in {"start", "validated", "loop", "summary", "done"}
    /\ result \in {"none", "Ok", "Err"}
    /\ offset \in 0..Len(file)
    /\ total_lines \in Nat /\ valid_line_count \in Nat

----------------------------------------------------------------------------
\* The function specifications: one input, one application of the function

RunIdle ==
    /\ pathKind = "file" /\ file = <<>> /\ yearArg = NoYear /\ nowYear = 2026
    /\ tz = "UTC" /\ pc = "done" /\ year = 0 /\ offset = 0 /\ total_lines = 0
    /\ valid_line_count = 0 /\ bytes_read_so_far = 0 /\ pbPosition = 0
    /\ pbMessage = "" /\ stdout = <<>> /\ stderr = <<>> /\ result = "none"
    /\ divisions = <<>>

\* lines handed to the classifier: a first token, then characters of the
\* grammar, then the terminator read_line leaves at the end of a line (or none)
ClassifyPrefixes ==
    { <<"I","N","F","O">>, <<"E","R","R","O","R">>, <<"I","N","F">>,
      <<"i","n","f","o">>, <<" ","I","N","F","O">>, <<"x">>, <<>> }

ClassifyInputs ==
    {p \o t \o e : p \in ClassifyPrefixes,
                   t \in SeqsUpTo({" ", "[", "]", "x"}, MaxTailLen),
                   e \in {<<>>, <<NL>>}}

InitClassify == RunIdle /\ arg \in ClassifyInputs /\ ret = NoMatch /\ op = "idle"

\* line 148: LOG_REGEX.captures(line)
ClassifyOp ==
    /\ op = "idle"
    /\ ret' = LOG_REGEX(arg)
    /\ op' = "classified"
    /\ UNCHANGED <<arg, runVars>>

NextClassify == ClassifyOp

SpecClassify == InitClassify /\ [][NextClassify]_vars

\* messages handed to the extractor: every short text over a small alphabet,
\* and the texts made of a few tokens separated by one space
TOK1 == <<"a", "=", "1">>
TOK2 == <<"a", "=", "2">>
TOK3 == <<"b", "=", Quote, "x", " ", "y", Quote>>
TOK4 == <<"a", "=", "b", "=", "c">>
TOK5 == <<"a", "=", Quote, "b", Quote>>
TOK6 == <<"b", "=">>
TOK7 == <<"x">>
TOK8 == <<"a", "=", "b", Quote>>

Tokens == {TOK1, TOK2, TOK3, TOK4, TOK5, TOK6, TOK7, TOK8}

RECURSIVE Join(_)
Join(ts) ==
    IF ts = <<>> THEN <<>>
    ELSE IF Len(ts) = 1 THEN Head(ts)
    ELSE Head(ts) \o <<" ">> \o Join(Tail(ts))

ExtractInputs ==
    SeqsUpTo({"a", "b", "=", Quote, " "}, MaxMsgLen)
    \cup {Join(ts) : ts \in SeqsUpTo(Tokens, MaxTokens)}

InitExtract == RunIdle /\ arg \in ExtractInputs /\ ret = EmptyMap /\ op = "idle"

\* lines 154-163: the details of the message
ExtractOp ==
    /\ op = "idle"
    /\ ret' = ExtractDetails(arg)
    /\ op' = "extracted"
    /\ UNCHANGED <<arg, runVars>>

NextExtract == ExtractOp

SpecExtract == InitExtract /\ [][NextExtract]_vars

\* lines handed to parse_line: the fields written in the timestamp, the year,
\* the zone, the shape of the line and its message
MsgKV == <<"k", "=", "v">>
MsgPlain == <<"u", "p">>

ParseInputs ==
    [envelope : {"ok", "nolevel", "nobracket"},
     month : {2, 3, 11, 13},
     day : {3, 10, 29, 30, 31},
     hour : {1, 2, 24},
     minute : {30, 60},
     second : {5, 60},
     frac : {<<>>, <<"1", "2", "3">>},
     message : {MsgKV, MsgPlain},
     year : {5, 2023, 2024, 10000},
     zone : Zones]

Pad2(n) == <<DigitChars[(n \div 10) + 1], DigitChars[(n % 10) + 1]>>

RawTimestamp(a) ==
    Pad2(a.month) \o <<"-">> \o Pad2(a.day) \o <<"|">> \o Pad2(a.hour) \o <<":">>
    \o Pad2(a.minute) \o <<":">> \o Pad2(a.second)
    \o (IF a.frac = <<>> THEN <<>> ELSE <<".">> \o a.frac)

RenderLine(a) ==
    IF a.envelope = "ok"
    THEN <<"I","N","F","O"," ","[">> \o RawTimestamp(a) \o <<"]", " ">> \o a.message \o <<NL>>
    ELSE IF a.envelope = "nolevel"
    THEN <<"[">> \o RawTimestamp(a) \o <<"]", " ">> \o a.message \o <<NL>>
    ELSE <<"I","N","F","O"," ">> \o RawTimestamp(a) \o <<" ">> \o a.message \o <<NL>>

InitParse == RunIdle /\ arg \in ParseInputs /\ ret = None /\ op = "idle"

\* line 135: parse_line(&line_buffer, year)
ParseOp ==
    /\ op = "idle"
    /\ ret' = parse_line(RenderLine(arg), arg.year, arg.zone)
    /\ op' = "parsed"
    /\ UNCHANGED <<arg, runVars>>

NextParse == ParseOp

SpecParse == InitParse /\ [][NextParse]_vars

----------------------------------------------------------------------------
\* Properties of the run (specification Spec)

\* the lines of the text f, as read_line cuts them
RECURSIVE LinesOf(_)
LinesOf(f) ==
    IF f = <<>> THEN <<>>
    ELSE LET l == NextLine(f, 0)
         IN <<l>> \o LinesOf(SubSeq(f, Len(l) + 1, Len(f)))

\* the lines the reader has consumed
LinesRead == LinesOf(SubSeq(file, 1, offset))

\* the line fails classification or timestamp reconstruction
Failed(line) ==
    LET caps == LOG_REGEX(line)
    IN \/ ~caps.matched
       \/ LET naive_dt == parse_from_str(with_year(year, caps.timestamp))
          IN \/ ~naive_dt.some
             \/ and_local_timezone(tz, naive_dt).kind # "Single"

SummaryPrinted == \E i \in 1..Len(stderr) : stderr[i].text = "Run Summary"

\* C1: a run on a file whose lines can all be read never fails, whatever lines
\* fail to parse: it ends with Ok and a summary, having read every line of the
\* file and printed the record of every line that parses.
C1_MalformedLineDoesNotAbort ==
    (pathKind = "file" /\ IsUtf8(file) /\ Len(file) > 0) =>
        /\ result # "Err"
        /\ pc = "done" =>
              /\ result = "Ok"
              /\ SummaryPrinted
              /\ offset = Len(file)
              /\ total_lines = Len(LinesOf(file))
              /\ Len(stdout) = Cardinality({i \in 1..Len(LinesOf(file)) :
                                              ~Failed(LinesOf(file)[i])})

\* a finished run whose first line has the date 02-30 and whose second line
\* was printed as a record
C1_Witness ==
    /\ pc = "done" /\ result = "Ok" /\ SummaryPrinted
    /\ IsPrefix(LineFeb30 \o <<NL>>, file)
    /\ total_lines = 3 /\ Len(stdout) = 2

\* C2: at every point of the run the total count is the number of lines read,
\* the valid count is the number of records printed, 0 <= valid <= total, and
\* total - valid is the number of lines read that failed classification or
\* timestamp reconstruction; a step that reads the line "garbage text no
\* structure" adds 1 to the total and changes neither the valid count nor the
\* records printed.
C2_CountsInv ==
    /\ total_lines = Len(LinesRead)
    /\ valid_line_count = Len(stdout)
    /\ 0 <= valid_line_count /\ valid_line_count <= total_lines
    /\ total_lines - valid_line_count =
          Cardinality({i \in 1..Len(LinesRead) : Failed(LinesRead[i])})

C2_GarbageStep ==
    (offset' # offset /\ IsPrefix(LineGarbage, NextLine(file, offset))) =>
        /\ total_lines' = total_lines + 1
        /\ valid_line_count' = valid_line_count
        /\ stdout' = stdout

C2_Counts == []C2_CountsInv /\ [][C2_GarbageStep]_vars

\* the garbage line was read and another line was printed as a record
C2_Witness ==
    /\ pc = "done"
    /\ IsPrefix(LineGarbage \o <<NL>>, file)
    /\ total_lines = 2 /\ valid_line_count = 1 /\ Len(stdout) = 1

\* the records of the lines ls that parse, in the order of ls
RECURSIVE ExpectedRecords(_, _, _)
ExpectedRecords(ls, y, zone) ==
    IF ls = <<>> THEN <<>>
    ELSE LET e == parse_line(Head(ls), y, zone)
         IN (IF e.some THEN <<to_string(e)>> ELSE <<>>)
            \o ExpectedRecords(Tail(ls), y, zone)

\* C3: the records printed are exactly the records of the lines read that
\* parse, one each, in the order the lines were read; the reader only moves
\* forward and a printed record is never changed or removed.
C3_OrderInv == stdout = ExpectedRecords(LinesRead, year, tz)

C3_ForwardStep ==
    /\ offset' >= offset
    /\ Len(stdout') >= Len(stdout)
    /\ SubSeq(stdout', 1, Len(stdout)) = stdout
    /\ Len(stdout') <= Len(stdout) + 1

C3_Order == []C3_OrderInv /\ [][C3_ForwardStep]_vars

\* two different records were printed, the first from an earlier line, with a
\* line that does not parse between their lines
C3_Witness ==
    /\ pc = "done"
    /\ total_lines = 3
    /\ Failed(LinesRead[2])
    /\ Len(stdout) = 2
    /\ stdout[1] # stdout[2]
    /\ stdout[1].level = <<"I", "N", "F", "O">>

\* C4: a run on an empty file ends with Ok, no line counted, no record and
\* only the empty-file message, and no division by the total was made; every
\* division by the total in any run has a total of at least one.
C4_EmptyFile ==
    /\ (pc = "done" /\ pathKind = "file" /\ Len(file) = 0) =>
          /\ result = "Ok"
          /\ total_lines = 0 /\ valid_line_count = 0
          /\ stdout = <<>>
          /\ stderr = <<Say("Input file is empty. Nothing to process.", <<>>)>>
          /\ pbMessage = "File is empty."
          /\ divisions = <<>>
    /\ \A i \in 1..Len(divisions) : divisions[i] >= 1

\* a finished run on an empty file
C4_Witness ==
    /\ pc = "done" /\ pathKind = "file" /\ Len(file) = 0 /\ result = "Ok"
    /\ stdout = <<>>

----------------------------------------------------------------------------
\* Properties of the attribute extraction (specification SpecExtract)

\* the text msg[s..e] is a key of word characters, "=", and a value that is
\* either a quoted text without a quote inside or a text without whitespace
IsKVSpan(msg, s, e) ==
    \E q \in (s + 1)..(e - 1) :
        /\ \A j \in s..(q - 1) : msg[j] \in WordChars
        /\ msg[q] = "="
        /\ \/ /\ e > q + 1 /\ msg[q + 1] = Quote /\ msg[e] = Quote
              /\ \A j \in (q + 2)..(e - 1) : msg[j] # Quote
           \/ \A j \in (q + 1)..e : msg[j] \notin Whitespace

SpanStartsAt(msg, s) == \E e \in s..Len(msg) : IsKVSpan(msg, s, e)

Matches == captures_iter(arg, 1)

\* the index of the last match with the key k
LastOf(k) == CHOOSE i \in 1..Len(Matches) :
                 /\ Matches[i].key = k
                 /\ \A j \in (i + 1)..Len(Matches) : Matches[j].key # k

ExampleDup == Join(<<TOK1, TOK3, TOK2>>)
ExampleChain == TOK4

\* C6: the matches of a message are key=value texts that do not overlap and
\* come left to right, each the first that starts after the end of the one
\* before it; the mapping has exactly the keys of the matches, each with the
\* (unquoted) value of its last match.  a=1 b="x y" a=2 gives {a: 2, b: x y},
\* a=b=c gives {a: b=c}, and a message without "=" gives the empty mapping.
C6_Extraction ==
    op = "extracted" =>
        /\ \A i \in 1..Len(Matches) :
              /\ IsKVSpan(arg, Matches[i].start, Matches[i].end)
              /\ LET from == IF i = 1 THEN 1 ELSE Matches[i - 1].end + 1
                 IN /\ from <= Matches[i].start
                    /\ \A s \in from..(Matches[i].start - 1) : ~SpanStartsAt(arg, s)
        /\ LET from == IF Matches = <<>> THEN 1 ELSE Matches[Len(Matches)].end + 1
           IN \A s \in from..Len(arg) : ~SpanStartsAt(arg, s)
        /\ DOMAIN ret = {Matches[i].key : i \in 1..Len(Matches)}
        /\ \A k \in DOMAIN ret : ret[k] = Unquote(Matches[LastOf(k)].value)
        /\ arg = ExampleDup => ret = (<<"a">> :> <<"2">> @@ <<"b">> :> <<"x", " ", "y">>)
        /\ arg = ExampleChain => ret = (<<"a">> :> <<"b", "=", "c">>)
        /\ (\A j \in 1..Len(arg) : arg[j] # "=") => ret = EmptyMap

\* the attributes of a=1 b="x y" a=2 were extracted
C6_Witness ==
    /\ op = "extracted" /\ arg = ExampleDup
    /\ Len(Matches) = 3 /\ ret[<<"a">>] = <<"2">>

\* the tokens k=v of the message: <<s, q, e>> with the token at s..e, delimited
\* by whitespace or the ends of the message, "=" at q, the key s..q-1 of word
\* characters and the value q+1..e not empty and without whitespace
KVTokens(msg) ==
    {t \in (1..Len(msg)) \X (1..Len(msg)) \X (1..Len(msg)) :
        /\ t[1] < t[2] /\ t[2] < t[3]
        /\ t[1] = 1 \/ msg[t[1] - 1] \in Whitespace
        /\ t[3] = Len(msg) \/ msg[t[3] + 1] \in Whitespace
        /\ \A j \in t[1]..(t[2] - 1) : msg[j] \in WordChars
        /\ msg[t[2]] = "="
        /\ \A j \in (t[2] + 1)..t[3] : msg[j] \notin Whitespace}

TokenKey(msg, t) == SubSeq(msg, t[1], t[2] - 1)
TokenValue(msg, t) == SubSeq(msg, t[2] + 1, t[3])

\* the text p occurs in msg at an index after e
OccursAfter(msg, p, e) ==
    \E i \in (e + 1)..(Len(msg) - Len(p) + 1) : SubSeq(msg, i, i + Len(p) - 1) = p

\* C7 as stated: every token k=v of the message, v without whitespace, is in
\* the mapping as k -> v.
C7_RoundTrip_Original ==
    op = "extracted" =>
        \A t \in KVTokens(arg) :
            /\ TokenKey(arg, t) \in DOMAIN ret
            /\ ret[TokenKey(arg, t)] = TokenValue(arg, t)

\* C7 amended: a token k=v of the message, v not empty, without whitespace and
\* not beginning with a double quote, with no double quote before the token
\* and no text k= after it, is in the mapping as k -> v.
C7_RoundTrip ==
    op = "extracted" =>
        \A t \in KVTokens(arg) :
            (/\ TokenValue(arg, t)[1] # Quote
             /\ \A j \in 1..(t[1] - 1) : arg[j] # Quote
             /\ ~OccursAfter(arg, TokenKey(arg, t) \o <<"=">>, t[3]))
            => /\ TokenKey(arg, t) \in DOMAIN ret
               /\ ret[TokenKey(arg, t)] = TokenValue(arg, t)

\* a message with the token a=b" after another token, extracted
C7_Witness ==
    /\ op = "extracted"
    /\ arg = Join(<<TOK7, TOK8>>)
    /\ ret[<<"a">>] = <<"b", Quote>>

\* C10: the value stored for a key is the matched text of the key's last match
\* without its first and its last character when that text starts and ends
\* with a double quote, and the matched text itself otherwise.
C10_Unquoting ==
    op = "extracted" =>
        \A k \in DOMAIN ret :
            LET v == Matches[LastOf(k)].value
            IN IF v[1] = Quote /\ v[Len(v)] = Quote
               THEN ret[k] = SubSeq(v, 2, Len(v) - 1)
               ELSE ret[k] = v

\* a quoted value with a space and an unquoted value were stored
C10_Witness ==
    /\ op = "extracted"
    /\ arg = Join(<<TOK3, TOK8>>)
    /\ ret[<<"b">>] = <<"x", " ", "y">>
    /\ ret[<<"a">>] = <<"b", Quote>>

----------------------------------------------------------------------------
\* Properties of the classifier (specification SpecClassify)

HasLevel(line) == \E l \in LevelKeywords : IsPrefix(l, line)

\* the line has a "[" with a "]" somewhere after it
HasBracketed(line) ==
    \E i \in 1..Len(line) : \E j \in (i + 1)..Len(line) :
        line[i] = "[" /\ line[j] = "]"

\* C9 as stated: a classified line starts with a level keyword and its raw
\* timestamp has no "]" and is the text between the "[" and the first "]"
\* after it; a line without a level keyword at its start or without a
\* bracketed timestamp is not classified.
C9_Classifier ==
    op = "classified" =>
        /\ ret.matched =>
              /\ HasLevel(arg)
              /\ \A j \in 1..Len(ret.timestamp) : ret.timestamp[j] # "]"
              /\ LET open == SkipUntil(arg, 1, {"["})
                     close == SkipUntil(arg, open + 1, {"]"})
                 IN ret.timestamp = SubSeq(arg, open + 1, close - 1)
        /\ (~HasLevel(arg) \/ ~HasBracketed(arg)) => ~ret.matched

----------------------------------------------------------------------------
\* Properties of parse_line (specification SpecParse)

\* the fields written in the timestamp are a date and a time of the year
WrittenValid(a, maxSecond) ==
    /\ a.month >= 1 /\ a.month <= 12
    /\ a.day >= 1 /\ a.day <= DaysInMonth(a.year, a.month)
    /\ a.hour <= 23 /\ a.minute <= 59 /\ a.second <= maxSecond

\* C5 as stated: a line of the grammar whose written month, day and time are
\* valid and have exactly one local offset is reconstructed, for every year,
\* to a timestamp with the written month, day, hour, minute and second and
\* with the supplied year.
C5_Reconstruction ==
    (/\ op = "parsed" /\ arg.envelope = "ok"
     /\ WrittenValid(arg, 59)
     /\ ~InGap(arg.zone, arg) /\ ~InOverlap(arg.zone, arg))
    => /\ ret.some
       /\ ret.timestamp.year = arg.year
       /\ ret.timestamp.month = arg.month
       /\ ret.timestamp.day = arg.day
       /\ ret.timestamp.hour = arg.hour
       /\ ret.timestamp.minute = arg.minute
       /\ ret.timestamp.second = arg.second

====
